---- MODULE Spec2Model ----
(***************************************************************************)
(* State-machine model of keyboard.c: the input dispatch of the on-screen  *)
(* keyboard (press / release handlers, modifier toggles, Fn remap, popup   *)
(* menu, launcher toggle, key repeat) inside main()'s control loop.        *)
(***************************************************************************)
EXTENDS Integers, Sequences, FiniteSets, TLC

VARIABLES
    keys,             \* Key keys[256] as loaded by load_layout_json (static)
    pref_menu,        \* MenuEntry pref_menu[16] (action strings, static)
    layout_doc,       \* the parsed "rows" array; <<>> once cJSON_Delete ran
    pressed,          \* int pressed[256]
    press_time,       \* struct timespec press_time[256], in ms
    last_repeat,      \* long last_repeat[256]
    shift_down, caps_down, ctrl_down, alt_down, fn_down,
    menu_visible, menu_pressed,
    keyboard_visible,
    win_mapped,       \* map state of the main window `win' (X server)
    launcher_mapped,  \* map state of the launcher window (X server)
    last_focus,       \* Window last_focus
    focus_call,       \* window of the latest re-sample's XSetInputFocus call,
                      \* None when that re-sample made none
    destroyed,        \* client windows destroyed so far (X server)
    dirty,
    running,          \* FALSE once exit(0) was called
    exit_code,        \* the process's exit status once it has one
    clock,            \* CLOCK_MONOTONIC in ms (environment)
    emitted,          \* XTestFakeKeyEvent calls of the last handler, in order
    touches,          \* pointers currently down, by their press position
    pending,          \* the events XPending counts, oldest first
    pc                \* where main is in the body of its for(;;) loop

modVars   == <<shift_down, caps_down, ctrl_down, alt_down, fn_down>>
pressVars == <<pressed, press_time, last_repeat>>
menuVars  == <<menu_visible, menu_pressed>>
mapVars   == <<keyboard_visible, win_mapped, launcher_mapped>>
confVars  == <<keys, pref_menu, layout_doc>>
focusVars == <<last_focus, focus_call, destroyed>>
procVars  == <<running, exit_code>>
loopVars  == <<pending, pc>>
vars == <<keys, pref_menu, layout_doc, pressed, press_time, last_repeat,
          shift_down, caps_down, ctrl_down, alt_down, fn_down,
          menu_visible, menu_pressed, keyboard_visible, win_mapped,
          launcher_mapped, last_focus, focus_call, destroyed, dirty, running, exit_code,
          clock,
          emitted, touches, pending, pc>>

(***************************************************************************)
(* Bounds of the model.                                                    *)
(***************************************************************************)
MaxTouches       == 1    \* pointers down at the same time (Spec, SpecFn)
MaxTouchesRepeat == 2    \* the same for SpecRepeat
MaxClock         == 500  \* SpecRepeat: the clock stops advancing here (ms)
MaxTouchesMenu   == 2    \* pointers down at the same time (SpecMenu)
MaxTouchesHide   == 1    \* pointers down at the same time (SpecHide)
MaxClockHide     == 450  \* SpecHide: the clock stops advancing here (ms)
MaxTouchesTick   == 2    \* pointers down at the same time (SpecTick)
MaxClockTick     == 450  \* SpecTick: the clock stops advancing here (ms)

(***************************************************************************)
(* Program constants.                                                      *)
(***************************************************************************)
RepeatDelay    == 400  \* dt > 400
RepeatInterval == 100  \* now - last_repeat[i] > 100
MenuOffset     == 2    \* y = prefKey.y - menu_h - 2
None           == "None"   \* X11 None
NoSymbol       == "NoSymbol"

ShiftSyms == {"XK_Shift_L", "XK_Shift_R"}
CtrlSyms  == {"XK_Control_L", "XK_Control_R"}
AltSyms   == {"XK_Alt_L", "XK_Alt_R"}

(* isalpha() on a one-character label *)
Letters == {"a", "b", "q", "A", "B", "Q"}
IsSingleLetter(label) == label \in Letters

(***************************************************************************)
(* XKeysymToKeycode against the server's keymap (a standard evdev keymap;  *)
(* 0 for a keysym no key produces).                                        *)
(***************************************************************************)
Keymap ==
    [ XK_a |-> 38, XK_b |-> 56, XK_q |-> 24, XK_1 |-> 10, XK_2 |-> 11, XK_3 |-> 12,
      XK_4 |-> 13, XK_5 |-> 14, XK_6 |-> 15, XK_7 |-> 16, XK_8 |-> 17,
      XK_9 |-> 18, XK_0 |-> 19, XK_minus |-> 20, XK_equal |-> 21,
      XK_BackSpace |-> 22, XK_space |-> 65,
      XK_Shift_L |-> 50, XK_Shift_R |-> 62, XK_Control_L |-> 37,
      XK_Control_R |-> 105, XK_Alt_L |-> 64, XK_Alt_R |-> 108,
      XK_Caps_Lock |-> 66, XK_Mode_switch |-> 203, XK_Preferences |-> 164,
      XK_F1 |-> 67, XK_F2 |-> 68, XK_F3 |-> 69, XK_F4 |-> 70, XK_F5 |-> 71,
      XK_F6 |-> 72, XK_F7 |-> 73, XK_F8 |-> 74, XK_F9 |-> 75, XK_F10 |-> 76,
      XK_F11 |-> 95, XK_F12 |-> 96 ]

XKeysymToKeycode(ks) == IF ks \in DOMAIN Keymap THEN Keymap[ks] ELSE 0


(***************************************************************************)
(* Layouts: the Key array load_layout_json produces for a document.        *)
(* MainLayout is three rows of three keys on a 34x30 canvas (unit width    *)
(* 10, GAP_PX 2, row height 10, ROW_GAP_PX 2).                             *)
(***************************************************************************)
MkKey(label, shl, ks, x, y) ==
    [label |-> label, shift_label |-> shl, keysym |-> ks,
     x |-> x, y |-> y, w |-> 10, h |-> 10]

MainLayout ==
    << MkKey("a", "", "XK_a", 0, 0),
       MkKey("1", "!", "XK_1", 12, 0),
       MkKey("Bogus", "", NoSymbol, 24, 0),
       MkKey("Shift", "", "XK_Shift_L", 0, 12),
       MkKey("Caps", "", "XK_Caps_Lock", 12, 12),
       MkKey("Ctrl", "", "XK_Control_L", 24, 12),
       MkKey("Alt", "", "XK_Alt_L", 0, 24),
       MkKey("Fn", "", "XK_Mode_switch", 12, 24),
       MkKey("Pref", "", "XK_Preferences", 24, 24) >>

MainMenu == << "hide", "quit" >>

(* One column of four keys; the three-entry menu opens above the          *)
(* Preferences key and covers the other three keys (entries at y 4..14,    *)
(* 14..24 and 24..34).  Its first entry has an action the release handler  *)
(* has no branch for, and its third key has a keysym without a keycode.    *)
MenuLayout ==
    << MkKey("a", "", "XK_a", 0, 0),
       MkKey("Shift", "", "XK_Shift_L", 0, 12),
       MkKey("Bogus", "", NoSymbol, 0, 24),
       MkKey("Pref", "", "XK_Preferences", 0, 36) >>

LongMenu == << "about", "hide", "quit" >>

(* One column of three keys; the one-entry menu opens above the            *)
(* Preferences key and covers the `a' key (y 12..22).                      *)
HideLayout ==
    << MkKey("Shift", "", "XK_Shift_L", 0, 0),
       MkKey("a", "", "XK_a", 0, 12),
       MkKey("Pref", "", "XK_Preferences", 0, 24) >>

HideMenu == << "hide" >>

(* One row of keys on a canvas of width 12n - 2: unit width 10, GAP_PX 2  *)
RowKey(label, ks, col) == MkKey(label, "", ks, 12 * (col - 1), 0)

(* the number row with the Fn key, a letter and a Shift key *)
FnLayout ==
    << RowKey("Fn", "XK_Mode_switch", 1), RowKey("1", "XK_1", 2),
       RowKey("2", "XK_2", 3), RowKey("3", "XK_3", 4), RowKey("4", "XK_4", 5),
       RowKey("5", "XK_5", 6), RowKey("6", "XK_6", 7), RowKey("7", "XK_7", 8),
       RowKey("8", "XK_8", 9), RowKey("9", "XK_9", 10),
       RowKey("0", "XK_0", 11), RowKey("-", "XK_minus", 12),
       RowKey("=", "XK_equal", 13), RowKey("q", "XK_q", 14),
       RowKey("Shift", "XK_Shift_L", 15) >>

(* a Shift key and two repeatable keys *)
RepeatLayout ==
    << RowKey("Shift", "XK_Shift_L", 1), RowKey("a", "XK_a", 2),
       RowKey("Bksp", "XK_BackSpace", 3) >>

(* Pointer positions the environment uses: the centre of every key, and   *)
(* for MainLayout one position in the gap between two keys.                *)
KeyCentres(layout) ==
    {<<layout[i].x + 5, layout[i].y + 5>> : i \in 1..Len(layout)}
GapPoint == <<11, 5>>
Points == KeyCentres(MainLayout) \cup {GapPoint}
(* for MenuLayout: between the menu and the Preferences key *)
MenuGap == <<5, 35>>
MenuPoints == KeyCentres(MenuLayout) \cup {MenuGap}

nkeys == Len(keys)
KeyIdx == 1..nkeys
pref_menu_count == Len(pref_menu)

IsShift(i) == keys[i].keysym \in ShiftSyms
IsCtrl(i)  == keys[i].keysym \in CtrlSyms
IsAlt(i)   == keys[i].keysym \in AltSyms
IsCaps_orFn(i) == keys[i].keysym \in {"XK_Caps_Lock", "XK_Mode_switch"}
IsCaps(i)  == keys[i].keysym = "XK_Caps_Lock"
IsFn(i)    == keys[i].keysym = "XK_Mode_switch"
IsPref(i)  == keys[i].keysym = "XK_Preferences"

Not(b) == IF b = 0 THEN 1 ELSE 0          \* C's !b on an int
Xor(a, b) == IF (a # 0) # (b # 0) THEN 1 ELSE 0

Inside(p, x, y, w, h) ==
    /\ p[1] >= x /\ p[1] < x + w
    /\ p[2] >= y /\ p[2] < y + h

HitKey_padded(p) ==
    LET hits == {i \in KeyIdx :
                   Inside(p, keys[i].x, keys[i].y, keys[i].w + 2,
                          keys[i].h + 2)}
    IN IF hits = {} THEN 0 ELSE CHOOSE i \in hits : \A j \in hits : i <= j
(* the key loop of the press handler: index of the first key whose         *)
(* rectangle holds p, 0 when there is none                                 *)
HitKey(p) ==
    LET hits == {i \in KeyIdx :
                   Inside(p, keys[i].x, keys[i].y, keys[i].w, keys[i].h)}
    IN IF hits = {} THEN 0 ELSE CHOOSE i \in hits : \A j \in hits : i <= j

(* get_preferences_key: the first Preferences key, an all-zero Key when    *)
(* the layout has none                                                     *)
get_preferences_key ==
    LET ps == {i \in KeyIdx : IsPref(i)}
    IN IF ps = {} THEN [MkKey("", "", NoSymbol, 0, 0) EXCEPT !.w = 0, !.h = 0]
       ELSE keys[CHOOSE i \in ps : \A j \in ps : i <= j]


(***************************************************************************)
(* The popup menu rectangle of the press and release handlers.             *)
(***************************************************************************)
menu_w == get_preferences_key.w
menu_h == pref_menu_count * get_preferences_key.h
menu_x == get_preferences_key.x
menu_y == get_preferences_key.y - menu_h - MenuOffset

InMenu(p) == Inside(p, menu_x, menu_y, menu_w, menu_h)

(* int idx = (ev.xbutton.y - y) / prefKey.h, for a position inside the     *)
(* menu (the quotient is not negative there)                               *)
MenuIdx(p) == (p[2] - menu_y) \div get_preferences_key.h

InEntry(p, idx) ==
    Inside(p, menu_x, menu_y + idx * get_preferences_key.h,
           menu_w, get_preferences_key.h)

(***************************************************************************)
(* Fn remapping of the number row (the switch on base).                    *)
(***************************************************************************)
FnTable ==
    [ XK_1 |-> "XK_F1", XK_2 |-> "XK_F2", XK_3 |-> "XK_F3", XK_4 |-> "XK_F4",
      XK_5 |-> "XK_F5", XK_6 |-> "XK_F6", XK_7 |-> "XK_F7", XK_8 |-> "XK_F8",
      XK_9 |-> "XK_F9", XK_0 |-> "XK_F10", XK_minus |-> "XK_F11",
      XK_equal |-> "XK_F12" ]

FnRemap_mut(base) ==
    LET t == [FnTable EXCEPT !.XK_0 = "XK_F9", !.XK_equal = "XK_equal"]
    IN IF base \in DOMAIN t THEN t[base] ELSE base
FnRemap(base) == IF base \in DOMAIN FnTable THEN FnTable[base] ELSE base

(* KeySym base after the `if (fn_down)' block *)
BaseSym(i, fn) == IF fn # 0 THEN FnRemap(keys[i].keysym) ELSE keys[i].keysym

(***************************************************************************)
(* need_shift of the press handler and of the repeat loop.                 *)
(***************************************************************************)
NeedShift_noCaps(label, caps, shift) == IF shift # 0 THEN 1 ELSE 0
NeedShift(label, caps, shift) ==
    IF IsSingleLetter(label)
    THEN (IF Xor(caps, shift) # 0 THEN 1 ELSE 0)
    ELSE (IF shift # 0 THEN 1 ELSE 0)

Down(kc) == <<kc, TRUE>>      \* XTestFakeKeyEvent(dpy, kc, True, 0)
Up(kc)   == <<kc, FALSE>>     \* XTestFakeKeyEvent(dpy, kc, False, 0)
If(c, s) == IF c THEN s ELSE <<>>

DispatchEvents_sameOrder(base, need_shift, ctrl, alt) ==
    LET kc  == XKeysymToKeycode(base)
        skc == XKeysymToKeycode("XK_Shift_L")
        ckc == XKeysymToKeycode("XK_Control_L")
        akc == XKeysymToKeycode("XK_Alt_L")
    IN    If(need_shift # 0 /\ skc # 0, <<Down(skc)>>)
       \o If(ctrl # 0 /\ ckc # 0, <<Down(ckc)>>)
       \o If(alt # 0 /\ akc # 0, <<Down(akc)>>)
       \o If(kc # 0, <<Down(kc), Up(kc)>>)
       \o If(need_shift # 0 /\ skc # 0, <<Up(skc)>>)
       \o If(ctrl # 0 /\ ckc # 0, <<Up(ckc)>>)
       \o If(alt # 0 /\ akc # 0, <<Up(akc)>>)
(* the XTestFakeKeyEvent calls of one key injection in the press handler   *)
DispatchEvents(base, need_shift, ctrl, alt) ==
    LET kc  == XKeysymToKeycode(base)
        skc == XKeysymToKeycode("XK_Shift_L")
        ckc == XKeysymToKeycode("XK_Control_L")
        akc == XKeysymToKeycode("XK_Alt_L")
    IN    If(need_shift # 0 /\ skc # 0, <<Down(skc)>>)
       \o If(ctrl # 0 /\ ckc # 0, <<Down(ckc)>>)
       \o If(alt # 0 /\ akc # 0, <<Down(akc)>>)
       \o If(kc # 0, <<Down(kc), Up(kc)>>)
       \o If(alt # 0 /\ akc # 0, <<Up(akc)>>)
       \o If(ctrl # 0 /\ ckc # 0, <<Up(ckc)>>)
       \o If(need_shift # 0 /\ skc # 0, <<Up(skc)>>)

RepeatEvents_fn(i) ==
    LET kc  == XKeysymToKeycode(BaseSym(i, fn_down))
        skc == XKeysymToKeycode("XK_Shift_L")
        need_shift == NeedShift(keys[i].label, caps_down, shift_down)
    IN    If(need_shift # 0 /\ skc # 0, <<Down(skc)>>)
       \o If(kc # 0, <<Down(kc), Up(kc)>>)
       \o If(need_shift # 0 /\ skc # 0, <<Up(skc)>>)
(* the XTestFakeKeyEvent calls of one repeat of key i *)
RepeatEvents(i) ==
    LET kc  == XKeysymToKeycode(keys[i].keysym)
        skc == XKeysymToKeycode("XK_Shift_L")
        need_shift == NeedShift(keys[i].label, caps_down, shift_down)
    IN    If(need_shift # 0 /\ skc # 0, <<Down(skc)>>)
       \o If(kc # 0, <<Down(kc), Up(kc)>>)
       \o If(need_shift # 0 /\ skc # 0, <<Up(skc)>>)


(***************************************************************************)
(* ButtonPress on the input window.                                        *)
(***************************************************************************)
DismissPressed_keep(mp) == mp
(* menu_pressed after a click outside the menu *)
DismissPressed(mp) == -1

(* menu_visible branch: a click inside the menu presses an entry, a click  *)
(* outside closes the menu; the event is consumed either way               *)
MenuPress(p) ==
    /\ IF InMenu(p)
       THEN IF MenuIdx(p) >= 0 /\ MenuIdx(p) < pref_menu_count
            THEN /\ menu_pressed' = MenuIdx(p)
                 /\ dirty' = TRUE
                 /\ UNCHANGED menu_visible
            ELSE UNCHANGED <<menu_visible, menu_pressed, dirty>>
       ELSE /\ menu_visible' = FALSE
            /\ menu_pressed' = DismissPressed(menu_pressed)
            /\ dirty' = TRUE
    /\ emitted' = <<>>
    /\ UNCHANGED <<pressVars, modVars>>

AutoRelease_shiftOnly(pr) ==
    [j \in KeyIdx |-> IF IsShift(j) THEN 0 ELSE pr[j]]
(* pressed[] after the `Reset modifiers after non-modifier key' block *)
AutoRelease(pr) ==
    [j \in KeyIdx |-> IF IsShift(j) \/ IsCtrl(j) \/ IsAlt(j) THEN 0 ELSE pr[j]]

(* the keysym test that guards the reset block *)
ResetsModifiers(i) ==
    ~(IsShift(i) \/ IsCtrl(i) \/ IsAlt(i) \/ IsCaps(i))

(* fn_down after a press on the Fn key *)
FnPressValue(fn) == Not(fn)

Toggle_set(v) == 1
(* a modifier boolean after a press on its key *)
Toggle(v) == Not(v)

CapsPressedValue_mirror(caps) == caps
(* pressed[i] of the Caps Lock key after a press on it *)
CapsPressedValue(caps) == 0

FnConsumed_remapOnly(i, fn) ==
    IF keys[i].keysym \in DOMAIN FnTable THEN 0 ELSE fn
(* fn_down after the `if (fn_down)' block of a non-modifier press *)
FnConsumed(i, fn) == IF fn # 0 THEN 0 ELSE fn

PrefToggle_stay(mv) == mv
(* menu_visible after a press on the Preferences key *)
PrefToggle(mv) == ~mv

(* body of the key loop for the key i that was hit *)
KeyPress(i) ==
    LET pr1 == [pressed EXCEPT ![i] = 1]
    IN
    /\ press_time' = [press_time EXCEPT ![i] = clock]
    /\ last_repeat' = [last_repeat EXCEPT ![i] = 0]
    /\ dirty' = TRUE
    /\ UNCHANGED menu_pressed
    /\ CASE IsPref(i) ->
              /\ menu_visible' = PrefToggle(menu_visible)
              /\ pressed' = pr1
              /\ emitted' = <<>>
              /\ UNCHANGED modVars
         [] IsShift(i) ->
              /\ shift_down' = Toggle(shift_down)
              /\ pressed' = [pr1 EXCEPT ![i] = Toggle(shift_down)]
              /\ emitted' = <<>>
              /\ UNCHANGED <<caps_down, ctrl_down, alt_down, fn_down,
                             menu_visible>>
         [] IsCaps(i) ->
              /\ caps_down' = Toggle(caps_down)
              /\ pressed' = [pr1 EXCEPT ![i] =
                                    CapsPressedValue(Toggle(caps_down))]
              /\ emitted' = <<>>
              /\ UNCHANGED <<shift_down, ctrl_down, alt_down, fn_down,
                             menu_visible>>
         [] IsCtrl(i) ->
              /\ ctrl_down' = Toggle(ctrl_down)
              /\ pressed' = [pr1 EXCEPT ![i] = Toggle(ctrl_down)]
              /\ emitted' = <<>>
              /\ UNCHANGED <<shift_down, caps_down, alt_down, fn_down,
                             menu_visible>>
         [] IsAlt(i) ->
              /\ alt_down' = Toggle(alt_down)
              /\ pressed' = [pr1 EXCEPT ![i] = Toggle(alt_down)]
              /\ emitted' = <<>>
              /\ UNCHANGED <<shift_down, caps_down, ctrl_down, fn_down,
                             menu_visible>>
         [] IsFn(i) ->
              /\ fn_down' = FnPressValue(fn_down)
              /\ pressed' = pr1
              /\ emitted' = <<>>
              /\ UNCHANGED <<shift_down, caps_down, ctrl_down, alt_down,
                             menu_visible>>
         [] OTHER ->
              /\ fn_down' = FnConsumed(i, fn_down)
              /\ emitted' =
                   IF last_focus # None
                   THEN DispatchEvents(BaseSym(i, fn_down),
                          NeedShift(keys[i].label, caps_down, shift_down),
                          ctrl_down, alt_down)
                   ELSE <<>>
              /\ IF ResetsModifiers(i)
                 THEN /\ shift_down' = 0 /\ ctrl_down' = 0 /\ alt_down' = 0
                      /\ pressed' = AutoRelease(pr1)
                 ELSE /\ pressed' = pr1
                      /\ UNCHANGED <<shift_down, ctrl_down, alt_down>>
              /\ UNCHANGED <<caps_down, menu_visible>>

(* the handler of a ButtonPress on the input window at p *)
PressHandler(p) ==
    /\ IF menu_visible
       THEN MenuPress(p)
       ELSE IF HitKey(p) # 0
            THEN KeyPress(HitKey(p))
            ELSE /\ emitted' = <<>>
                 /\ UNCHANGED <<pressVars, modVars, menuVars, dirty>>
    /\ UNCHANGED <<confVars, mapVars, focusVars, procVars, clock>>

(* a pointer goes down at p and the loop, which was idle, handles the      *)
(* event at once                                                           *)
Press(p, maxTouches) ==
    /\ running /\ win_mapped
    /\ p \notin touches /\ Cardinality(touches) < maxTouches
    /\ touches' = touches \cup {p}
    /\ PressHandler(p)
    /\ UNCHANGED loopVars


(***************************************************************************)
(* ButtonRelease.                                                          *)
(***************************************************************************)
RECURSIVE HideEvents(_)
(* the `hide' action's loop over the keys from index i on: a key-up for    *)
(* every key marked pressed whose keysym has a keycode                     *)
HideEvents(i) ==
    IF i > nkeys THEN <<>>
    ELSE If(pressed[i] # 0 /\ XKeysymToKeycode(keys[i].keysym) # 0,
            <<Up(XKeysymToKeycode(keys[i].keysym))>>) \o HideEvents(i + 1)

MenuAfterRelease_close(mv) == FALSE
(* menu_visible after a release that runs no action: the handler does not  *)
(* write it                                                                *)
MenuAfterRelease(mv) == mv

(* exit_code of a process that has not exited *)
NoExit == -1

ExitStatus_failure(act) == 1
(* the argument of exit() in the release handler's branch for action act *)
ExitStatus(act) == 0

HideClears_keep(pr) == pr
HideClears_modifiers(pr) ==
    [i \in KeyIdx |-> IF IsShift(i) \/ IsCtrl(i) \/ IsAlt(i) THEN pr[i] ELSE 0]
(* pressed[] after the `hide' action's loop *)
HideClears(pr) == [i \in KeyIdx |-> 0]

(* menu_visible branch of the release handler; q is the release position  *)
MenuRelease(q) ==
    /\ dirty' = TRUE
    /\ UNCHANGED <<press_time, last_repeat, modVars>>
    /\ IF menu_pressed # -1
       THEN /\ menu_pressed' = -1
            /\ IF InEntry(q, menu_pressed)
               THEN CASE pref_menu[menu_pressed + 1] = "quit" ->
                           /\ running' = FALSE
                           /\ exit_code' = ExitStatus("quit")
                           /\ emitted' = <<>>
                           /\ UNCHANGED <<pressed, menu_visible, mapVars>>
                      [] pref_menu[menu_pressed + 1] = "hide" ->
                           /\ emitted' = HideEvents(1)
                           /\ pressed' = HideClears(pressed)
                           /\ win_mapped' = FALSE
                           /\ launcher_mapped' = TRUE
                           /\ keyboard_visible' = FALSE
                           /\ menu_visible' = FALSE
                           /\ UNCHANGED procVars
                      [] OTHER ->
                           /\ emitted' = <<>>
                           /\ menu_visible' = MenuAfterRelease(menu_visible)
                           /\ UNCHANGED <<pressed, mapVars, procVars>>
               ELSE /\ emitted' = <<>>
                    /\ menu_visible' = MenuAfterRelease(menu_visible)
                    /\ UNCHANGED <<pressed, mapVars, procVars>>
       ELSE /\ emitted' = <<>>
            /\ menu_visible' = MenuAfterRelease(menu_visible)
            /\ UNCHANGED <<pressed, menu_pressed, mapVars, procVars>>

(* the key the release loop stops at: the first one marked pressed *)
ReleasedKey ==
    LET ps == {i \in KeyIdx : pressed[i] # 0}
    IN IF ps = {} THEN 0 ELSE CHOOSE i \in ps : \A j \in ps : i <= j

(* the value the release loop stores into pressed[i] *)
ReleaseValue(i) ==
    CASE IsCaps(i)  -> 0
      [] IsShift(i) -> shift_down
      [] IsCtrl(i)  -> ctrl_down
      [] IsAlt(i)   -> alt_down
      [] OTHER      -> 0

KeyRelease ==
    /\ emitted' = <<>>
    /\ UNCHANGED <<press_time, modVars, menuVars, mapVars, procVars>>
    /\ IF ReleasedKey # 0
       THEN /\ pressed' = [pressed EXCEPT ![ReleasedKey] =
                                              ReleaseValue(ReleasedKey)]
            /\ last_repeat' = [last_repeat EXCEPT ![ReleasedKey] = 0]
            /\ dirty' = TRUE
       ELSE UNCHANGED <<pressed, last_repeat, dirty>>

(* the handler of a ButtonRelease at q *)
ReleaseHandler(q) ==
    /\ IF menu_visible
       THEN MenuRelease(q)
       ELSE KeyRelease
    /\ UNCHANGED <<confVars, focusVars, clock>>

(* the pointer that went down at p is lifted at q and the event handled at *)
(* once                                                                    *)
Release(p, q) ==
    /\ running /\ win_mapped
    /\ p \in touches
    /\ ReleaseHandler(q)
    /\ touches' = IF win_mapped' THEN touches \ {p} ELSE {}
    /\ UNCHANGED loopVars


(***************************************************************************)
(* ButtonPress on the launcher window: toggle the keyboard's visibility.   *)
(***************************************************************************)
ResetPrefPressed(pr) ==
    LET ps == {i \in KeyIdx : IsPref(i)}
    IN IF ps = {} THEN pr
       ELSE [pr EXCEPT ![CHOOSE i \in ps : \A j \in ps : i <= j] = 0]

LauncherMenu_toggle(mv) == ~mv
(* menu_visible after a press on the launcher *)
LauncherMenu(mv) == FALSE

(* the handler of a ButtonPress on the launcher window *)
LauncherHandler ==
    /\ IF win_mapped
       THEN /\ win_mapped' = FALSE
            /\ keyboard_visible' = FALSE
            /\ UNCHANGED launcher_mapped
       ELSE /\ win_mapped' = TRUE
            /\ launcher_mapped' = FALSE
            /\ keyboard_visible' = TRUE
    /\ pressed' = ResetPrefPressed(pressed)
    /\ menu_visible' = LauncherMenu(menu_visible)
    /\ dirty' = TRUE
    /\ emitted' = <<>>
    /\ UNCHANGED <<confVars, press_time, last_repeat, modVars, menu_pressed,
                   focusVars, procVars, clock>>

(* the launcher is pressed and the event handled at once *)
LauncherPress ==
    /\ running /\ launcher_mapped
    /\ LauncherHandler
    /\ touches' = IF win_mapped' THEN touches ELSE {}
    /\ UNCHANGED loopVars

(***************************************************************************)
(* Focus capture.  Windows are named; app is a client window whose first   *)
(* InputOutput child is appIn.                                             *)
(***************************************************************************)
OwnWindows == {"win", "input", "root", "PointerRoot"}

(* find_input_child(deepest_under_pointer(child)) for the window tree: the *)
(* InputOnly child `input' covers win and has no children; a client window *)
(* without InputOutput children is returned as it is                       *)
InputChildOf(child) ==
    CASE child = "app" -> "appIn"
      [] child = "win" -> "input"
      [] OTHER -> child

(* the test that opens the pointer branch of the re-sample *)
PointerBranch(child) == child # None /\ child \notin OwnWindows

(* last_focus after the re-sample at the top of a loop iteration: fw is    *)
(* the focus window, child the root's child under the pointer, attrOK      *)
(* whether XGetWindowAttributes succeeds on the candidate                  *)
Resample(lf, fw, child, attrOK) ==
    LET lf1 == IF fw # None /\ fw \notin OwnWindows THEN fw ELSE lf
    IN IF PointerBranch(child)
       THEN IF InputChildOf(child) # None /\ ~attrOK THEN None
            ELSE InputChildOf(child)
       ELSE lf1

(* the argument of the re-sample's XSetInputFocus call, None when the      *)
(* call is not reached                                                     *)
FocusCall(child, attrOK) ==
    IF PointerBranch(child) /\ InputChildOf(child) # None /\ attrOK
    THEN InputChildOf(child) ELSE None

(* the window the capture at startup looks at *)
StartupCandidate(fw, child) ==
    IF fw # None /\ fw \notin OwnWindows THEN fw
    ELSE IF child # None THEN InputChildOf(child) ELSE None

(* last_focus after the capture at startup *)
StartupCapture(fw, child, attrOK) ==
    LET lf1 == IF fw # None /\ fw \notin OwnWindows THEN fw
               ELSE IF child # None
                    THEN IF InputChildOf(child) # None /\ attrOK
                         THEN InputChildOf(child) ELSE None
                    ELSE None
    IN IF lf1 # None /\ attrOK THEN lf1 ELSE None

(* A client window may be destroyed while the re-sample is talking about   *)
(* it: before XGetWindowAttributes ("attr", the call fails) or between it  *)
(* and XSetInputFocus ("focus", BadWindow goes to my_xerror_handler, which *)
(* returns 0 and writes nothing).                                          *)
Races == {"none", "attr", "focus"}

(* the root's children the pointer can be over: a destroyed window is not  *)
(* one of them                                                             *)
LiveChildren(CH) == {c \in CH : InputChildOf(c) \notin destroyed}


(***************************************************************************)
(* The rest of a loop iteration once the pending events are drained: key   *)
(* repeat, redraw, and the focus re-sample that opens the next iteration.  *)
(***************************************************************************)
RepeatDue_shared(i, now) ==
    /\ pressed[i] # 0
    /\ \E k \in KeyIdx : pressed[k] # 0 /\ now - press_time[k] > RepeatDelay
    /\ (last_repeat[i] = 0 \/ now - last_repeat[i] > RepeatInterval)
RepeatDue_ifTarget(i, now) ==
    /\ last_focus # None
    /\ pressed[i] # 0
    /\ now - press_time[i] > RepeatDelay
    /\ (last_repeat[i] = 0 \/ now - last_repeat[i] > RepeatInterval)
(* the repeat loop's test for key i at time now *)
RepeatDue(i, now) ==
    /\ pressed[i] # 0
    /\ now - press_time[i] > RepeatDelay
    /\ (last_repeat[i] = 0 \/ now - last_repeat[i] > RepeatInterval)

RECURSIVE RepeatAll(_, _)
(* the XTestFakeKeyEvent calls of the repeat loop from index i on *)
RepeatAll(i, now) ==
    IF i > nkeys THEN <<>>
    ELSE If(RepeatDue(i, now) /\ last_focus # None, RepeatEvents(i))
         \o RepeatAll(i + 1, now)

Redraw_skip(d) == d
(* dirty after the `if (dirty)' block at the end of the iteration *)
Redraw(d) == FALSE

(* the `if (keyboard_visible)' block at the top of the loop body *)
Refocus(FW, CH, RACE) ==
    IF keyboard_visible
    THEN \E fw \in FW \ destroyed, child \in LiveChildren(CH),
            race \in RACE :
            /\ last_focus' = Resample(last_focus, fw, child, race # "attr")
            /\ focus_call' = FocusCall(child, race # "attr")
            /\ destroyed' = IF PointerBranch(child) /\ race # "none"
                             THEN destroyed \cup {InputChildOf(child)}
                             ELSE destroyed
    ELSE UNCHANGED focusVars

Iterate(FW, CH, RACE) ==
    /\ running
    /\ emitted' = RepeatAll(1, clock)
    /\ last_repeat' = [i \in KeyIdx |->
                         IF RepeatDue(i, clock) THEN clock ELSE last_repeat[i]]
    /\ dirty' = Redraw(dirty \/ \E i \in KeyIdx : RepeatDue(i, clock))
    /\ Refocus(FW, CH, RACE)
    /\ UNCHANGED <<confVars, pressed, press_time, modVars, menuVars, mapVars,
                   procVars, clock, touches, loopVars>>

(* time passes *)
Advance(d, horizon) ==
    /\ running
    /\ clock + d <= horizon
    /\ clock' = clock + d
    /\ UNCHANGED <<confVars, pressVars, modVars, menuVars, mapVars,
                   focusVars, dirty, procVars, emitted, touches, loopVars>>

(***************************************************************************)
(* Specifications.                                                         *)
(***************************************************************************)

InitWith(layout, menu, FW, CH, RACE) ==
    /\ keys = layout
    /\ pref_menu = menu
    /\ layout_doc = <<>>
    /\ pressed = [i \in 1..Len(layout) |-> 0]
    /\ press_time = [i \in 1..Len(layout) |-> 0]
    /\ last_repeat = [i \in 1..Len(layout) |-> 0]
    /\ shift_down = 0 /\ caps_down = 0 /\ ctrl_down = 0 /\ alt_down = 0
    /\ fn_down = 0
    /\ menu_visible = FALSE /\ menu_pressed = -1
    /\ keyboard_visible = TRUE
    /\ win_mapped = TRUE /\ launcher_mapped = FALSE
    /\ \E fw \in FW, c \in CH, race \in RACE \ {"focus"} :
         LET ok == race # "attr"
             cand == StartupCandidate(fw, c)
         IN /\ ok \/ cand \notin OwnWindows \cup {None}
            /\ last_focus = IF ok
                            THEN Resample(StartupCapture(fw, c, ok), fw, c, ok)
                            ELSE StartupCapture(fw, c, ok)
            /\ focus_call = IF ok THEN FocusCall(c, ok) ELSE None
            /\ destroyed = IF ok THEN {} ELSE {cand}
    /\ dirty = TRUE
    /\ running = TRUE
    /\ exit_code = NoExit
    /\ clock = 0
    /\ emitted = <<>>
    /\ touches = {}
    /\ pending = <<>>
    /\ pc = "events"

FocusWins == {None, "win", "appIn"}
ChildWins == {None, "app"}

Init == InitWith(MainLayout, MainMenu, FocusWins, ChildWins, {"none"})

(* where a pointer that went down at p may be lifted: at p, or dragged off *)
(* into the gap between the keys                                          *)
DragTo(p) == {p, GapPoint}

Next ==
    \/ \E p \in Points : Press(p, MaxTouches)
    \/ \E p \in Points : \E q \in DragTo(p) : Release(p, q)
    \/ LauncherPress
    \/ Iterate(FocusWins, ChildWins, {"none"})

(* the dispatch of MainLayout; no key is held long enough to repeat *)
Spec == Init /\ [][Next]_vars

InitFn == InitWith(FnLayout, <<>>, FocusWins, ChildWins, {"none"})

NextFn ==
    \/ \E p \in KeyCentres(FnLayout) : Press(p, MaxTouches)
    \/ \E p \in KeyCentres(FnLayout) : Release(p, p)
    \/ Iterate(FocusWins, ChildWins, {"none"})

(* the number row: a layout without a Preferences key, whose menu never   *)
(* opens and whose launcher is never mapped                                *)
SpecFn == InitFn /\ [][NextFn]_vars

(* every focus window and pointer position the server can report: focus   *)
(* on nothing, PointerRoot, the keyboard itself or a client; the pointer   *)
(* over no window, the keyboard or a client                                *)
FocusWinsAll == {None, "PointerRoot", "win", "appIn", "term"}
ChildWinsAll == {None, "win", "app", "term"}

InitMenu == InitWith(MenuLayout, LongMenu, FocusWinsAll, ChildWinsAll, Races)

NextMenu ==
    \/ \E p \in MenuPoints : Press(p, MaxTouchesMenu)
    \/ \E p \in MenuPoints : Release(p, p)
    \/ LauncherPress
    \/ Iterate(FocusWinsAll, ChildWinsAll, Races)

(* the popup menu, the launcher and the focus capture against every        *)
(* answer of the server; every pointer is lifted where it went down        *)
SpecMenu == InitMenu /\ [][NextMenu]_vars

InitHide == InitWith(HideLayout, HideMenu, FocusWins, ChildWins, {"none"})

NextHide ==
    \/ \E p \in KeyCentres(HideLayout) : Press(p, MaxTouchesHide)
    \/ \E p \in KeyCentres(HideLayout) : Release(p, p)
    \/ LauncherPress
    \/ Iterate(FocusWins, ChildWins, {"none"})
    \/ Advance(MaxClockHide, MaxClockHide)

(* hiding and showing the keyboard while keys are marked pressed and time  *)
(* passes                                                                  *)
SpecHide == InitHide /\ [][NextHide]_vars

(* a number key held while Fn, Ctrl, Alt and Shift are toggled *)
TickLayout ==
    << RowKey("Fn", "XK_Mode_switch", 1), RowKey("Ctrl", "XK_Control_L", 2),
       RowKey("Alt", "XK_Alt_L", 3), RowKey("Shift", "XK_Shift_L", 4),
       RowKey("1", "XK_1", 5) >>

InitTick == InitWith(TickLayout, <<>>, FocusWins, ChildWins, {"none"})

NextTick ==
    \/ \E p \in KeyCentres(TickLayout) : Press(p, MaxTouchesTick)
    \/ \E p \in KeyCentres(TickLayout) : Release(p, p)
    \/ Iterate(FocusWins, ChildWins, {"none"})
    \/ Advance(MaxClockTick, MaxClockTick)

(* repeat ticks of a held key under every modifier state *)
SpecTick == InitTick /\ [][NextTick]_vars

(* the pointer rests over no window: the target is the focused client *)
InitRepeat == InitWith(RepeatLayout, <<>>, FocusWins, {None}, {"none"})

NextRepeat ==
    \/ \E p \in KeyCentres(RepeatLayout) : Press(p, MaxTouchesRepeat)
    \/ \E p \in KeyCentres(RepeatLayout) : Release(p, p)
    \/ Iterate(FocusWins, {None}, {"none"})
    \/ \E d \in {50, 400} : Advance(d, MaxClock)

(* held keys while time passes *)
SpecRepeat == InitRepeat /\ [][NextRepeat]_vars


(***************************************************************************)
(* The control loop with its event queue.  The X server appends an event   *)
(* to the connection's queue when a pointer goes down or up on a mapped    *)
(* window; main takes the events off the queue in the inner while loop,    *)
(* then runs the repeat loop, the redraw and the test before usleep.  pc   *)
(* is main's position: "events" at `while(XPending(dpy))', "redraw" at     *)
(* `if (dirty)', "sleep" at `if(!XPending(dpy))', "asleep" inside usleep.  *)
(***************************************************************************)
MaxPending      == 2    \* events the queue can hold (SpecQueue)
MaxTouchesQueue == 1    \* pointers down at the same time (SpecQueue)
MaxClockQueue   == 450  \* SpecQueue: the clock stops advancing here (ms)

(* how long a usleep(20000) takes, in ms: no less than the 20 ms asked     *)
(* for; the model lets the process wait this long to be scheduled again    *)
SleepTimes == {225}

(* where the pointer goes down: on the `a' key, which the open menu's      *)
(* entry covers, and on the Preferences key                                *)
QueuePoints == {<<5, 17>>, <<5, 29>>}

XPending_none == FALSE
(* XPending(dpy) # 0 *)
XPending == pending # <<>>

ButtonPressOn(w, p) == [type |-> "ButtonPress", window |-> w, at |-> p]
ButtonReleaseOn(w, p) == [type |-> "ButtonRelease", window |-> w, at |-> p]

(* the server queues ev for the client; nothing of the client changes *)
Queue(ev) ==
    /\ Len(pending) < MaxPending
    /\ pending' = Append(pending, ev)
    /\ UNCHANGED <<confVars, pressVars, modVars, menuVars, mapVars,
                   focusVars, dirty, procVars, clock, emitted, pc>>

(* a pointer goes down at p on the input window *)
PointerDown(p) ==
    /\ running /\ win_mapped
    /\ p \notin touches /\ Cardinality(touches) < MaxTouchesQueue
    /\ touches' = touches \cup {p}
    /\ Queue(ButtonPressOn("input", p))

(* the pointer that went down at p is lifted there *)
PointerUp(p) ==
    /\ running /\ win_mapped
    /\ p \in touches
    /\ touches' = touches \ {p}
    /\ Queue(ButtonReleaseOn("input", p))

(* a pointer goes down on the launcher window, which selects no releases *)
LauncherDown ==
    /\ running /\ launcher_mapped
    /\ UNCHANGED touches
    /\ Queue(ButtonPressOn("launcher", <<0, 0>>))

(* one turn of the inner while loop: XNextEvent and the handler of the     *)
(* event; the server ends the implicit grabs of a window that is unmapped  *)
NextEvent ==
    /\ running /\ pc = "events" /\ XPending
    /\ LET ev == Head(pending) IN
         CASE ev.type = "ButtonPress" /\ ev.window = "launcher" ->
                 LauncherHandler
           [] ev.type = "ButtonPress" /\ ev.window = "input" ->
                 PressHandler(ev.at)
           [] ev.type = "ButtonRelease" ->
                 ReleaseHandler(ev.at)
    /\ pending' = Tail(pending)
    /\ pc' = "events"
    /\ touches' = IF win_mapped' THEN touches ELSE {}

(* the inner loop ends and the repeat loop runs *)
RepeatLoop ==
    /\ running /\ pc = "events" /\ ~XPending
    /\ emitted' = RepeatAll(1, clock)
    /\ last_repeat' = [i \in KeyIdx |->
                         IF RepeatDue(i, clock) THEN clock ELSE last_repeat[i]]
    /\ dirty' = (dirty \/ \E i \in KeyIdx : RepeatDue(i, clock))
    /\ pc' = "redraw"
    /\ UNCHANGED <<confVars, pressed, press_time, modVars, menuVars, mapVars,
                   focusVars, procVars, clock, touches, pending>>

(* the `if (dirty)' block *)
RedrawStep ==
    /\ running /\ pc = "redraw"
    /\ dirty' = Redraw(dirty)
    /\ pc' = "sleep"
    /\ UNCHANGED <<confVars, pressVars, modVars, menuVars, mapVars,
                   focusVars, procVars, clock, emitted, touches, pending>>

(* `if(!XPending(dpy)) usleep(20000);' with an event pending: the next     *)
(* iteration starts at once                                                *)
SkipSleep(FW, CH, RACE) ==
    /\ running /\ pc = "sleep" /\ XPending
    /\ Refocus(FW, CH, RACE)
    /\ pc' = "events"
    /\ UNCHANGED <<confVars, pressVars, modVars, menuVars, mapVars, dirty,
                   procVars, clock, emitted, touches, pending>>

(* the same with no event pending: usleep is entered *)
Sleep ==
    /\ running /\ pc = "sleep" /\ ~XPending
    /\ pc' = "asleep"
    /\ UNCHANGED <<confVars, pressVars, modVars, menuVars, mapVars,
                   focusVars, dirty, procVars, clock, emitted, touches,
                   pending>>

(* usleep returns and the next iteration starts *)
Wake(FW, CH, RACE) ==
    /\ running /\ pc = "asleep"
    /\ \E d \in SleepTimes :
          clock' = IF clock + d <= MaxClockQueue THEN clock + d ELSE clock
    /\ Refocus(FW, CH, RACE)
    /\ pc' = "events"
    /\ UNCHANGED <<confVars, pressVars, modVars, menuVars, mapVars, dirty,
                   procVars, emitted, touches, pending>>

InitQueue == InitWith(HideLayout, HideMenu, {"appIn"}, {None}, {"none"})

NextQueue ==
    \/ \E p \in QueuePoints : PointerDown(p)
    \/ \E p \in QueuePoints : PointerUp(p)
    \/ LauncherDown
    \/ NextEvent
    \/ RepeatLoop
    \/ RedrawStep
    \/ SkipSleep({"appIn"}, {None}, {"none"})
    \/ Sleep
    \/ Wake({"appIn"}, {None}, {"none"})

(* the loop of main with events that wait in the queue while earlier ones  *)
(* are handled                                                             *)
SpecQueue == InitQueue /\ [][NextQueue]_vars


(***************************************************************************)
(* Vocabulary of the properties.                                           *)
(***************************************************************************)
(* this step handles a press at p / the lifting of the pointer pressed at p *)
PressAt(p)   == p \notin touches /\ p \in touches'
ReleaseOf(p) == p \in touches /\ p \notin touches'

(* the positions of the presses this step handles in the key loop (menu   *)
(* closed) with a key under them                                           *)
KeyPresses == {p \in touches' \ touches : ~menu_visible /\ HitKey(p) # 0}

ModifierSyms ==
    ShiftSyms \cup CtrlSyms \cup AltSyms
      \cup {"XK_Caps_Lock", "XK_Mode_switch", "XK_Preferences"}
NonModifierKey(i) == keys[i].keysym \notin ModifierSyms

skc == XKeysymToKeycode("XK_Shift_L")
ckc == XKeysymToKeycode("XK_Control_L")
akc == XKeysymToKeycode("XK_Alt_L")

Codes(s) == {s[n][1] : n \in 1..Len(s)}

(* C1: after a press that hits a non-modifier key with the menu closed,    *)
(* shift, ctrl and alt are all false, every Shift/Ctrl/Alt key's pressed   *)
(* flag is 0 and caps is unchanged, with or without a capture target.      *)
C1_AutoRelease ==
    [][\A p \in KeyPresses : LET i == HitKey(p) IN
         (NonModifierKey(i)) =>
            /\ shift_down' = 0 /\ ctrl_down' = 0 /\ alt_down' = 0
            /\ caps_down' = caps_down
            /\ \A j \in KeyIdx :
                 (IsShift(j) \/ IsCtrl(j) \/ IsAlt(j)) => pressed'[j] = 0]_vars

(* shift, ctrl and alt were all on when "1" was pressed with caps on *)
C1_Witness ==
    /\ emitted = <<Down(skc), Down(ckc), Down(akc), Down(10), Up(10),
                   Up(akc), Up(ckc), Up(skc)>>
    /\ shift_down = 0 /\ ctrl_down = 0 /\ alt_down = 0 /\ caps_down = 1
    /\ \A j \in KeyIdx : (IsShift(j) \/ IsCtrl(j) \/ IsAlt(j)) => pressed[j] = 0

(* C2: a dispatched non-modifier key is wrapped in a Shift down/up pair    *)
(* iff need_shift: caps XOR shift for a single-letter label, shift alone   *)
(* for any other key, on the modifier state at the moment of the press.    *)
C2_ModifierXor ==
    [][\A p \in KeyPresses : LET i == HitKey(p) IN
         (NonModifierKey(i) /\ last_focus # None) =>
            LET need == IF IsSingleLetter(keys[i].label)
                        THEN (caps_down # 0) # (shift_down # 0)
                        ELSE shift_down # 0
                n == Len(emitted')
            IN /\ need => /\ n >= 2
                          /\ emitted'[1] = Down(skc)
                          /\ emitted'[n] = Up(skc)
               /\ ~need => skc \notin Codes(emitted')]_vars

(* "a" was pressed with caps on and shift off: an upper-case letter *)
C2_Witness ==
    /\ emitted = <<Down(skc), Down(38), Up(38), Up(skc)>>
    /\ caps_down = 1

(* C3 as stated: with fn true, after the next press that hits a key of    *)
(* any kind, fn is false.                                                  *)
C3_FnOneShotAnyKey ==
    [][\A p \in KeyPresses : LET i == HitKey(p) IN
         (fn_down # 0) => fn_down' = 0]_vars

(* C3 amended: with fn true, after the next press that hits a non-modifier *)
(* key, fn is false, whether or not the key is in the remapped set.        *)
C3_FnOneShot ==
    [][\A p \in KeyPresses : LET i == HitKey(p) IN
         (NonModifierKey(i) /\ fn_down # 0)
            => fn_down' = 0]_vars

(* fn was on when "1" was pressed (F1 went out) and is off afterwards *)
C3_Witness ==
    /\ emitted = <<Down(67), Up(67)>>
    /\ fn_down = 0
    /\ \E i \in KeyIdx : keys[i].keysym = "XK_1" /\ pressed[i] = 1

(* C4: after any press that hits the Fn key, fn is true whatever its value *)
(* before the press, and the Fn key is marked pressed.                     *)
C4_FnPressSets ==
    [][\A p \in KeyPresses : LET i == HitKey(p) IN
         (IsFn(i)) =>
            (fn_down' = 1 /\ pressed'[i] = 1)]_vars

(* the function key the number row is documented to produce under Fn *)
C5_Expected(ks) ==
    CASE ks = "XK_1" -> "XK_F1" [] ks = "XK_2" -> "XK_F2"
      [] ks = "XK_3" -> "XK_F3" [] ks = "XK_4" -> "XK_F4"
      [] ks = "XK_5" -> "XK_F5" [] ks = "XK_6" -> "XK_F6"
      [] ks = "XK_7" -> "XK_F7" [] ks = "XK_8" -> "XK_F8"
      [] ks = "XK_9" -> "XK_F9" [] ks = "XK_0" -> "XK_F10"
      [] ks = "XK_minus" -> "XK_F11" [] ks = "XK_equal" -> "XK_F12"
      [] OTHER -> ks

(* the events of a dispatch that are not wrapping modifier events *)
KeyEvents(s) == SelectSeq(s, LAMBDA e : e[1] \notin {skc, ckc, akc})

(* C5: a non-modifier key pressed with fn true emits F1..F9 for 1..9, F10  *)
(* for 0, F11 for minus, F12 for equal and its own code otherwise; with fn *)
(* false it always emits its own code.                                     *)
C5_FnRemap ==
    [][\A p \in KeyPresses : LET i == HitKey(p) IN
         (NonModifierKey(i) /\ last_focus # None
            /\ XKeysymToKeycode(keys[i].keysym) # 0) =>
            LET want == IF fn_down # 0 THEN C5_Expected(keys[i].keysym)
                        ELSE keys[i].keysym
            IN KeyEvents(emitted') = <<Down(XKeysymToKeycode(want)),
                                       Up(XKeysymToKeycode(want))>>]_vars

(* "=" was pressed with fn on: F12 went out *)
C5_Witness ==
    /\ emitted = <<Down(96), Up(96)>>
    /\ \E i \in KeyIdx : keys[i].keysym = "XK_equal" /\ pressed[i] = 1

(* C6: one dispatch of a non-modifier key emits exactly [Shift down]       *)
(* [Ctrl down] [Alt down], key down, key up, [Alt up] [Ctrl up] [Shift up], *)
(* each modifier event iff its condition (need_shift, ctrl, alt) is true.  *)
C6_EmissionOrder ==
    [][\A p \in KeyPresses : LET i == HitKey(p) IN
         (NonModifierKey(i) /\ last_focus # None
            /\ XKeysymToKeycode(BaseSym(i, fn_down)) # 0) =>
            LET kc   == XKeysymToKeycode(BaseSym(i, fn_down))
                need == IF IsSingleLetter(keys[i].label)
                        THEN (caps_down # 0) # (shift_down # 0)
                        ELSE shift_down # 0
            IN emitted' =
                    If(need, <<Down(skc)>>) \o If(ctrl_down # 0, <<Down(ckc)>>)
                 \o If(alt_down # 0, <<Down(akc)>>)
                 \o <<Down(kc), Up(kc)>>
                 \o If(alt_down # 0, <<Up(akc)>>)
                 \o If(ctrl_down # 0, <<Up(ckc)>>) \o If(need, <<Up(skc)>>)]_vars

(* "a" went out inside all three modifier pairs *)
C6_Witness ==
    emitted = <<Down(skc), Down(ckc), Down(akc), Down(38), Up(38),
                Up(akc), Up(ckc), Up(skc)>>

(* C7: a press that hits a Shift, Ctrl or Alt key inverts exactly that     *)
(* modifier's boolean, leaves the other modifier booleans unchanged, emits *)
(* nothing, and leaves the key's pressed flag equal to the new boolean.    *)
C7_ModifierToggle ==
    [][\A p \in KeyPresses : LET i == HitKey(p) IN
         ((IsShift(i) \/ IsCtrl(i) \/ IsAlt(i))) =>
            /\ shift_down' = IF IsShift(i) THEN 1 - shift_down ELSE shift_down
            /\ ctrl_down' = IF IsCtrl(i) THEN 1 - ctrl_down ELSE ctrl_down
            /\ alt_down' = IF IsAlt(i) THEN 1 - alt_down ELSE alt_down
            /\ caps_down' = caps_down /\ fn_down' = fn_down
            /\ emitted' = <<>>
            /\ pressed'[i] = CASE IsShift(i) -> shift_down'
                               [] IsCtrl(i) -> ctrl_down'
                               [] OTHER -> alt_down']_vars

(* the pointer is down on the Ctrl key, which the press switched off while *)
(* shift and alt stay on                                                   *)
C7_Witness ==
    /\ \E i \in KeyIdx :
         /\ IsCtrl(i) /\ pressed[i] = 0
         /\ touches = {<<keys[i].x + 5, keys[i].y + 5>>}
    /\ ctrl_down = 0 /\ shift_down = 1 /\ alt_down = 1
    /\ dirty /\ ~menu_visible /\ emitted = <<>>

(* C8: a press that hits the Caps Lock key inverts caps, leaves shift,     *)
(* ctrl, alt and fn unchanged, emits nothing, and the Caps Lock key is     *)
(* never marked pressed between events.                                    *)
C8_CapsToggle ==
    /\ [][\A p \in KeyPresses : LET i == HitKey(p) IN
            (IsCaps(i)) =>
               /\ caps_down' = 1 - caps_down
               /\ UNCHANGED <<shift_down, ctrl_down, alt_down, fn_down>>
               /\ emitted' = <<>>
               /\ pressed'[i] = 0]_vars
    /\ [](\A i \in KeyIdx : IsCaps(i) => pressed[i] = 0)

(* the pointer is down on the Caps Lock key, caps is on, shift and fn too *)
C8_Witness ==
    /\ \E i \in KeyIdx :
         /\ IsCaps(i) /\ pressed[i] = 0
         /\ touches = {<<keys[i].x + 5, keys[i].y + 5>>}
    /\ caps_down = 1 /\ shift_down = 1 /\ fn_down = 1
    /\ dirty /\ ~menu_visible /\ emitted = <<>>

(* C9: a release changes only the pressed flag of the key whose press it   *)
(* ends: it becomes the governing boolean for a Shift/Ctrl/Alt key and 0   *)
(* otherwise, and every other key's pressed flag is unchanged.             *)
C9_ReleaseFrame ==
    [][\A p \in touches : \A i \in KeyIdx :
         (ReleaseOf(p) /\ ~menu_visible /\ i = HitKey(p) /\ pressed[i] # 0) =>
            pressed' = [pressed EXCEPT ![i] =
                          CASE IsShift(i) -> shift_down
                            [] IsCtrl(i) -> ctrl_down
                            [] IsAlt(i) -> alt_down
                            [] OTHER -> 0]]_vars

(* this step's repeat loop re-emits key i *)
ReEmitted(i) ==
    /\ last_repeat'[i] # last_repeat[i] /\ last_repeat'[i] # 0
    /\ last_focus # None

(* C10: a key is re-emitted for the first time only once 400 ms have       *)
(* elapsed since its press, later re-emissions are at least 100 ms apart,  *)
(* and it is never re-emitted after its release.                           *)
C10_RepeatTiming ==
    [][\A i \in KeyIdx :
         ReEmitted(i) =>
            /\ clock - press_time[i] >= RepeatDelay
            /\ last_repeat[i] # 0 => clock - last_repeat[i] >= RepeatInterval
            /\ \E p \in touches : HitKey(p) = i]_vars

(* key i's own repeat condition at the current clock *)
OwnSchedule(i) ==
    /\ pressed[i] # 0
    /\ clock - press_time[i] > RepeatDelay
    /\ (last_repeat[i] = 0 \/ clock - last_repeat[i] > RepeatInterval)

(* this step's repeat loop stamps key i *)
Stamped(i) == last_repeat'[i] # last_repeat[i] /\ last_repeat'[i] # 0

(* C11: a press that hits a key leaves the pressed flag, press time and    *)
(* last-repeat time of every other non-modifier key that is held as they   *)
(* were, and a repeat tick repeats a key iff that key's own press time and *)
(* last-repeat time make it due, whatever other keys are held.             *)
C11_MultiTouch ==
    /\ [][\A p \in KeyPresses : LET i == HitKey(p) IN
            \A j \in KeyIdx \ {i} :
               (NonModifierKey(j) /\ pressed[j] # 0) =>
                  /\ pressed'[j] = pressed[j]
                  /\ press_time'[j] = press_time[j]
                  /\ last_repeat'[j] = last_repeat[j]]_vars
    /\ [][(\E k \in KeyIdx : Stamped(k)) =>
             \A i \in KeyIdx : Stamped(i) <=> OwnSchedule(i)]_vars

(* two non-modifier keys are held, pressed at different times, and only    *)
(* the earlier one has repeated so far                                     *)
C11_Witness ==
    /\ Cardinality(touches) = 2
    /\ \E i, j \in KeyIdx :
         /\ NonModifierKey(i) /\ NonModifierKey(j)
         /\ pressed[i] = 1 /\ pressed[j] = 1
         /\ press_time[i] < press_time[j]
         /\ last_repeat[i] # 0 /\ last_repeat[j] = 0

(* the keyboard's own surfaces *)
OwnSurfaces == {"win", "input", "launcher"}

(* C12: after the startup capture and after every re-sample, last_focus is *)
(* None or a window that is not the main window, the input-routing child   *)
(* or the launcher.                                                        *)
C12_NeverOwnSurface == last_focus \notin OwnSurfaces

(* C13: with no capture target (last_focus None) no handler emits a        *)
(* synthetic key event: not a key press, not a repeat tick, not the hide   *)
(* action.                                                                 *)
C13_NoTargetNoEmission == [][last_focus = None => emitted' = <<>>]_vars

(* C14: when an X error is reported against the tracked target (the        *)
(* window was destroyed), the process keeps running and last_focus becomes *)
(* None, and it never names a destroyed window afterwards.                 *)
C14_TargetInvalidated ==
    /\ [][destroyed' # destroyed => (running' /\ last_focus' = None)]_vars
    /\ [](last_focus \notin destroyed)

(* C15: with the menu closed, a press that hits the Preferences key opens  *)
(* the menu, emits nothing and leaves shift, ctrl, alt, caps and fn as     *)
(* they were.                                                              *)
C15_PrefOpensMenu ==
    [][\A p \in KeyPresses : LET i == HitKey(p) IN
         IsPref(i) =>
            /\ menu_visible'
            /\ emitted' = <<>>
            /\ UNCHANGED <<shift_down, ctrl_down, alt_down, caps_down,
                           fn_down>>]_vars

(* the pointer is down on the Preferences key, the menu is open and shift, *)
(* caps and fn are still on                                                *)
C15_Witness ==
    /\ \E i \in KeyIdx :
         /\ IsPref(i) /\ pressed[i] = 1
         /\ touches = {<<keys[i].x + 5, keys[i].y + 5>>}
    /\ menu_visible /\ menu_pressed = -1
    /\ shift_down = 1 /\ caps_down = 1 /\ fn_down = 1
    /\ emitted = <<>>

(* C16: with the menu open and entry i marked pressed, a release inside    *)
(* entry i leaves the menu closed and no entry marked pressed, whatever    *)
(* the entry's action string (unless the action ended the process).        *)
C16_MenuReleaseToIdle ==
    [][\A p \in touches :
         (ReleaseOf(p) /\ menu_visible /\ menu_pressed # -1
            /\ InEntry(p, menu_pressed)) =>
            (running' => (~menu_visible' /\ menu_pressed' = -1))]_vars

(* C17 as stated: with the menu open, every press and every release whose  *)
(* position is outside the menu rectangle closes the menu, changes no      *)
(* key's press record and no modifier boolean and emits nothing.           *)
C17_OutsideDismisses ==
    [][\A p \in MenuPoints :
         ((PressAt(p) \/ ReleaseOf(p)) /\ menu_visible /\ ~InMenu(p)
            /\ win_mapped') =>
            /\ ~menu_visible'
            /\ UNCHANGED <<pressVars, modVars>>
            /\ emitted' = <<>>]_vars

(* C17 amended: with the menu open, a press outside the menu rectangle     *)
(* closes the menu, a release outside it leaves the menu open; both leave  *)
(* no entry marked pressed, change no key's press record and no modifier   *)
(* boolean and emit nothing.                                               *)
C17_OutsideMenu ==
    [][\A p \in MenuPoints :
         ((PressAt(p) \/ ReleaseOf(p)) /\ menu_visible /\ ~InMenu(p)
            /\ win_mapped') =>
            /\ menu_visible' = ReleaseOf(p)
            /\ menu_pressed' = -1
            /\ UNCHANGED <<pressVars, modVars>>
            /\ emitted' = <<>>]_vars

(* the pointer that opened the menu on the Preferences key has been lifted *)
(* there, outside the menu, and the menu is still open                     *)
C17_Witness ==
    /\ menu_visible /\ menu_pressed = -1 /\ touches = {}
    /\ \E i \in KeyIdx : IsPref(i) /\ pressed[i] = 1
    /\ keys = MenuLayout

(* this step releases p inside the pressed menu entry, whose action is act *)
RunsAction(p, act) ==
    /\ ReleaseOf(p) /\ menu_visible /\ menu_pressed # -1
    /\ InEntry(p, menu_pressed)
    /\ pref_menu[menu_pressed + 1] = act

(* the keys marked pressed, and those of them whose keysym has a keycode *)
PressedKeys == {i \in KeyIdx : pressed[i] # 0}
ResolvedPressedKeys ==
    {i \in PressedKeys : XKeysymToKeycode(keys[i].keysym) # 0}

(* s is one key-up per key of K, in layout order *)
OneUpPerKey(s, K) ==
    /\ Len(s) = Cardinality(K)
    /\ \A i \in K : \E n \in 1..Len(s) :
         /\ s[n] = Up(XKeysymToKeycode(keys[i].keysym))
         /\ n = Cardinality({j \in K : j <= i})

(* what the hide action leaves besides the emitted events *)
HiddenAfter ==
    /\ \A i \in KeyIdx : pressed'[i] = 0
    /\ ~menu_visible'
    /\ ~win_mapped' /\ launcher_mapped' /\ ~keyboard_visible'

(* C18 as stated: the hide action emits one key-up for every key marked    *)
(* pressed, clears every pressed flag, closes the menu and switches to the *)
(* hidden presentation.                                                    *)
C18_HideAllKeys ==
    [][\A p \in touches :
         RunsAction(p, "hide") =>
            (OneUpPerKey(emitted', PressedKeys) /\ HiddenAfter)]_vars

(* C18 amended: the hide action emits one key-up for every key marked      *)
(* pressed whose keysym has a keycode and none for the others, clears      *)
(* every pressed flag, closes the menu and switches to the hidden          *)
(* presentation.                                                           *)
C18_HideResolvedKeys ==
    [][\A p \in touches :
         RunsAction(p, "hide") =>
            (OneUpPerKey(emitted', ResolvedPressedKeys) /\ HiddenAfter)]_vars

(* hide ran while the `a' key and the Preferences key were marked pressed: *)
(* two key-ups went out and the launcher is shown                          *)
C18_Witness ==
    /\ emitted = <<Up(38), Up(164)>>
    /\ \A i \in KeyIdx : pressed[i] = 0
    /\ ~menu_visible /\ ~win_mapped /\ launcher_mapped /\ ~keyboard_visible

(* C19: the quit action ends the process at once with exit status 0: it    *)
(* emits nothing, and afterwards no event is handled, no repeat tick runs  *)
(* and nothing is emitted.                                                 *)
C19_QuitTerminates ==
    /\ [][\A p \in touches :
            RunsAction(p, "quit") =>
               (~running' /\ exit_code' = 0 /\ emitted' = <<>>)]_vars
    /\ [][~running => UNCHANGED vars]_vars
    /\ [](running <=> exit_code = NoExit)

(* quit ran while the menu was open: the process has exited with status 0  *)
C19_Witness ==
    /\ ~running /\ exit_code = 0
    /\ menu_visible /\ menu_pressed = -1 /\ emitted = <<>>
    /\ win_mapped

(* position p lies inside no key rectangle *)
InNoKey(p) ==
    \A i \in KeyIdx :
       ~(/\ p[1] >= keys[i].x /\ p[1] < keys[i].x + keys[i].w
         /\ p[2] >= keys[i].y /\ p[2] < keys[i].y + keys[i].h)

(* C20: with the menu closed, a press inside no key rectangle changes no   *)
(* pressed flag, press time or last-repeat time, no modifier boolean (fn   *)
(* included) and no menu state, and emits nothing.                         *)
C20_MissIsNoOp ==
    [][\A p \in Points :
         (PressAt(p) /\ ~menu_visible /\ InNoKey(p)) =>
            /\ UNCHANGED <<pressVars, modVars, menuVars>>
            /\ emitted' = <<>>]_vars

(* the pointer is down in the gap between two keys; shift, caps and fn are *)
(* still on and the menu is still closed                                   *)
C20_Witness ==
    /\ touches = {GapPoint}
    /\ shift_down = 1 /\ caps_down = 1 /\ fn_down = 1
    /\ ~menu_visible /\ emitted = <<>>
    /\ \E i \in KeyIdx : IsShift(i) /\ pressed[i] = 1

(* this step handles a press on the launcher: the launcher was mapped and  *)
(* the visibility changes                                                  *)
LauncherToggles == launcher_mapped /\ keyboard_visible' # keyboard_visible

C22_UnresolvedKeySilent ==
    /\ [][\A p \in KeyPresses : LET i == HitKey(p) IN
            keys[i].keysym = NoSymbol => emitted' = <<>>]_vars
    /\ [][((\E k \in KeyIdx : Stamped(k))
             /\ \A i \in KeyIdx : Stamped(i) => keys[i].keysym = NoSymbol)
             => emitted' = <<>>]_vars

(* C23: while the main window is unmapped every key's pressed flag is 0,   *)
(* and no step that starts with the window unmapped (a handler, a repeat   *)
(* tick) emits anything.                                                   *)
C23_HiddenIsIdle ==
    /\ [](~win_mapped => \A i \in KeyIdx : pressed[i] = 0)
    /\ [][(~win_mapped /\ emitted' # emitted) => emitted' = <<>>]_vars

(* the keyboard was hidden with shift toggled on, and a loop iteration ran *)
(* more than 400 ms after the Shift key's press                            *)
C23_Witness ==
    /\ ~win_mapped /\ launcher_mapped /\ ~keyboard_visible
    /\ shift_down = 1
    /\ clock - press_time[1] > RepeatDelay
    /\ ~dirty /\ last_focus # None


(***************************************************************************)
(* load_layout_json: the layout engine.                                    *)
(*                                                                         *)
(* A document is a sequence of rows, a row a sequence of key descriptors   *)
(* [width, height, valid]; `valid' is FALSE for an object that lacks a     *)
(* string label or keysym, which the placement loop skips.  The code       *)
(* computes pixels in float; the model computes the same expressions in    *)
(* exact arithmetic, every pixel value held as a numerator over the        *)
(* document's common denominator Den(doc), so that no division rounds.     *)
(***************************************************************************)
MaxKeys == 5      \* descriptors in a document (SpecLayout)

win_w == 34       \* canvas width in pixels
win_h == 30       \* canvas height in pixels
GAP_PX == 2       \* horizontal gap
ROW_GAP_PX == 2   \* vertical gap between rows

KeyDesc(w, h, ok) == [width |-> w, height |-> h, valid |-> ok]
(* a plain key, a wide key, a key two rows tall, an object without keysym *)
KeyDescs == {KeyDesc(1, 1, TRUE), KeyDesc(2, 1, TRUE), KeyDesc(1, 2, TRUE),
             KeyDesc(1, 1, FALSE)}

RECURSIVE SplitRows(_, _, _)
(* the rows of a document given as its descriptors in reading order and,   *)
(* for every descriptor but the last, whether a row ends after it          *)
SplitRows(descs, ends, i) ==
    IF i > Len(descs) THEN <<>>
    ELSE LET stops == {j \in i..Len(descs) : j = Len(descs) \/ ends[j]}
             j == CHOOSE k \in stops : \A m \in stops : k <= m
         IN <<SubSeq(descs, i, j)>> \o SplitRows(descs, ends, j + 1)

RECURSIVE total_units_from(_, _)
(* the first loop over a row: every object counts, placed or not *)
total_units_from(row, c) ==
    IF c > Len(row) THEN 0 ELSE row[c].width + total_units_from(row, c + 1)
total_units(row) ==
    LET t == total_units_from(row, 1) IN IF t <= 0 THEN 1 ELSE t

RECURSIVE UnitsProduct(_, _)
UnitsProduct(doc, r) ==
    IF r > Len(doc) THEN 1 ELSE total_units(doc[r]) * UnitsProduct(doc, r + 1)
(* pixel values of a document are numerators over this denominator *)
Den(doc) == Len(doc) * UnitsProduct(doc, 1)

RECURSIVE reserved_px_from(_, _)
reserved_px_from(spans, s) ==
    IF s > Len(spans) THEN 0
    ELSE (IF spans[s].end > spans[s].start
          THEN spans[s].end - spans[s].start ELSE 0)
         + reserved_px_from(spans, s + 1)

(* unit_w of a row with the reserved spans `spans'; D is Den(doc) *)
unit_w(D, row, spans) ==
    LET ncols == Len(row)
        gaps_px == (IF ncols > 0 THEN ncols - 1 ELSE 0) * GAP_PX * D
        eff == win_w * D - reserved_px_from(spans, 1) - gaps_px
        effective_row_px == IF eff < D THEN D ELSE eff
    IN effective_row_px \div total_units(row)

RECURSIVE SkipReserved(_, _, _)
(* one pass over the row's spans, in array order, moving xcursor to the    *)
(* end of a span it lies in                                                *)
SkipReserved(xcursor, spans, s) ==
    IF s > Len(spans) THEN xcursor
    ELSE SkipReserved(IF xcursor >= spans[s].start /\ xcursor < spans[s].end
                      THEN spans[s].end ELSE xcursor, spans, s + 1)

(* the width of a row's last descriptor: up to the canvas edge, or up to   *)
(* the first span of the array that ends right of x                        *)
StretchWidth(D, x, spans) ==
    LET after == {s \in 1..Len(spans) : x < spans[s].end /\ spans[s].end > x}
    IN IF after = {} THEN win_w * D - x
       ELSE LET s == CHOOSE t \in after : \A u \in after : t <= u
            IN spans[s].start - x - GAP_PX * D

NextCursor_gapOnly(D, row, c, x, w) ==
    x + (IF c < Len(row) THEN GAP_PX * D ELSE 0)
(* xcursor after the key at x of width w in column c *)
NextCursor(D, row, c, x, w) ==
    x + w + (IF c < Len(row) THEN GAP_PX * D ELSE 0)

(* the reserved arrays after a key of height multiplier hmult was placed   *)
(* in row r (1-based) at [x, x + w)                                        *)
Reserve(reserved, r, hmult, x, w) ==
    [rr \in DOMAIN reserved |->
        IF rr > r /\ rr <= r + (hmult - 1)
        THEN Append(reserved[rr], [start |-> x, end |-> x + w])
        ELSE reserved[rr]]

RECURSIVE LoadFrom(_, _, _, _, _, _, _)
(* the two nested loops from row r, column c on (both 1-based) *)
LoadFrom(doc, D, r, c, xcursor, out, reserved) ==
    IF r > Len(doc) THEN out
    ELSE IF c > Len(doc[r]) THEN LoadFrom(doc, D, r + 1, 1, 0, out, reserved)
    ELSE IF ~doc[r][c].valid
         THEN LoadFrom(doc, D, r, c + 1, xcursor, out, reserved)
    ELSE
      LET obj == doc[r][c]
          row_h == (win_h * D) \div Len(doc)
          x == SkipReserved(xcursor, reserved[r], 1)
          w == IF c = Len(doc[r]) THEN StretchWidth(D, x, reserved[r])
               ELSE unit_w(D, doc[r], reserved[r]) * obj.width
          K == [label |-> "k", shift_label |-> "", keysym |-> "XK_a",
                x |-> x,
                y |-> (r - 1) * row_h + ROW_GAP_PX * D * (r - 1),
                w |-> w,
                h |-> row_h * obj.height + ROW_GAP_PX * D * (obj.height - 1)]
      IN LoadFrom(doc, D, r, c + 1, NextCursor(D, doc[r], c, x, w),
                  Append(out, K), Reserve(reserved, r, obj.height, x, w))

load_layout_json(doc) ==
    LoadFrom(doc, Den(doc), 1, 1, 0, <<>>, [rr \in 1..Len(doc) |-> <<>>])

(* main() up to the control loop, for every document of at most maxKeys    *)
(* descriptors of descSet in non-empty rows; no capture target             *)
InitDocs(maxKeys, descSet) ==
    /\ \E n \in 1..maxKeys :
         \E descs \in [1..n -> descSet], ends \in [1..(n - 1) -> BOOLEAN] :
            layout_doc = SplitRows(descs, ends, 1)
    /\ keys = <<>>
    /\ pref_menu = <<>>
    /\ pressed = <<>> /\ press_time = <<>> /\ last_repeat = <<>>
    /\ shift_down = 0 /\ caps_down = 0 /\ ctrl_down = 0 /\ alt_down = 0
    /\ fn_down = 0
    /\ menu_visible = FALSE /\ menu_pressed = -1
    /\ keyboard_visible = TRUE
    /\ win_mapped = TRUE /\ launcher_mapped = FALSE
    /\ last_focus = None /\ focus_call = None /\ destroyed = {}
    /\ dirty = TRUE
    /\ running = TRUE
    /\ exit_code = NoExit
    /\ clock = 0
    /\ emitted = <<>>
    /\ touches = {}
    /\ pending = <<>>
    /\ pc = "events"

InitLayout == InitDocs(MaxKeys, KeyDescs)

(* the call of load_layout_json and the arrays main sizes after it *)
LoadLayout ==
    /\ layout_doc # <<>>
    /\ keys' = load_layout_json(layout_doc)
    /\ layout_doc' = <<>>
    /\ pressed' = [i \in 1..Len(keys') |-> 0]
    /\ press_time' = [i \in 1..Len(keys') |-> 0]
    /\ last_repeat' = [i \in 1..Len(keys') |-> 0]
    /\ UNCHANGED <<pref_menu, modVars, menuVars, mapVars, focusVars, dirty,
                   procVars, clock, emitted, touches, loopVars>>

NextLayout == LoadLayout

SpecLayout == InitLayout /\ [][NextLayout]_vars

(* documents with keys three rows tall: a plain key, a wide key two rows   *)
(* tall, a key three rows tall                                             *)
MaxKeysTall == 6
TallDescs == {KeyDesc(1, 1, TRUE), KeyDesc(2, 2, TRUE), KeyDesc(1, 3, TRUE)}

InitTall == InitDocs(MaxKeysTall, TallDescs)

NextTall == LoadLayout

SpecTall == InitTall /\ [][NextTall]_vars


(***************************************************************************)
(* Properties of the computed geometry.                                    *)
(***************************************************************************)
(* the step that loads the document *)
Loads == layout_doc # <<>> /\ layout_doc' = <<>>

(* y of row r (1-based) of a document *)
RowY(doc, r) ==
    (r - 1) * ((win_h * Den(doc)) \div Len(doc))
      + ROW_GAP_PX * Den(doc) * (r - 1)

RECURSIVE SumWidths(_, _)
SumWidths(ks, S) ==
    IF S = {} THEN 0
    ELSE LET i == CHOOSE j \in S : TRUE IN ks[i].w + SumWidths(ks, S \ {i})

(* the keys of earlier rows that reach down into the row at y *)
SpansInto(ks, y) == {k \in 1..Len(ks) : ks[k].y < y /\ ks[k].y + ks[k].h > y}

RowCovered(doc, ks, r) ==
    LET D == Den(doc)
        rowKeys == {i \in 1..Len(ks) : ks[i].y = RowY(doc, r)}
        last == CHOOSE i \in rowKeys : \A j \in rowKeys : j <= i
    IN rowKeys # {} =>
         /\ SumWidths(ks, rowKeys) + (Cardinality(rowKeys) - 1) * GAP_PX * D
              <= win_w * D
         /\ (\A k \in SpansInto(ks, RowY(doc, r)) :
                 ks[k].x + ks[k].w <= ks[last].x)
              => ks[last].x + ks[last].w = win_w * D

(* C24: in every row of every loaded layout the key widths plus the gaps   *)
(* between the keys do not exceed the canvas width, and the row's last key *)
(* ends exactly at the canvas's right edge unless a key of an earlier row  *)
(* reaches down into the row to its right.                                 *)
C24_Coverage ==
    [][Loads => \A r \in 1..Len(layout_doc) :
                   RowCovered(layout_doc, keys', r)]_vars

XDisjoint(a, b) ==
    a.w <= 0 \/ b.w <= 0 \/ a.x + a.w <= b.x \/ b.x + b.w <= a.x

(* C25: two keys placed on the same row have disjoint intervals            *)
(* [x, x + w), also in a row that a key of an earlier row reaches into.    *)
C25_SameRowDisjoint ==
    \A i, j \in KeyIdx :
        (i < j /\ keys[i].y = keys[j].y) => XDisjoint(keys[i], keys[j])

(* a loaded layout with a two-row key and two keys in the row below it,    *)
(* the second of them moved to the end of the reserved span                *)
C25_Witness ==
    /\ layout_doc = <<>>
    /\ \E t, i, j \in KeyIdx :
         /\ t \in SpansInto(keys, keys[i].y)
         /\ i < j /\ keys[i].y = keys[j].y
         /\ keys[i].x < keys[t].x
         /\ keys[j].x = keys[t].x + keys[t].w
         /\ keys[j].w > 0

RectsMeet(a, b) ==
    /\ a.w > 0 /\ b.w > 0 /\ a.h > 0 /\ b.h > 0
    /\ a.x < b.x + b.w /\ b.x < a.x + a.w
    /\ a.y < b.y + b.h /\ b.y < a.y + a.h

(* C26: no two key rectangles of a loaded layout share a point, keys       *)
(* taller than a row and the keys of the rows they reach into included.    *)
C26_NoSharedPoint ==
    \A i, j \in KeyIdx : i < j => ~RectsMeet(keys[i], keys[j])


(* the events one repeat of key i is to produce: its own key code, inside  *)
(* a Shift pair when need_shift holds for the current modifiers            *)
OwnCodeEvents(i) ==
    LET kc == XKeysymToKeycode(keys[i].keysym)
        sh == NeedShift(keys[i].label, caps_down, shift_down) # 0
    IN IF sh THEN <<Down(skc), Down(kc), Up(kc), Up(skc)>>
       ELSE <<Down(kc), Up(kc)>>

RECURSIVE TickEvents(_)
(* the events of the keys this step's repeat loop stamps, from key i on *)
TickEvents(i) ==
    IF i > nkeys THEN <<>>
    ELSE (IF Stamped(i) THEN OwnCodeEvents(i) ELSE <<>>) \o TickEvents(i + 1)

(* C27: a repeat tick with a capture target emits, for every key it        *)
(* repeats, that key's own code (never the Fn substitute, never inside     *)
(* Ctrl or Alt events), inside a Shift pair iff need_shift holds for the   *)
(* modifiers at the tick; it changes no modifier boolean and no pressed    *)
(* flag.                                                                   *)
C27_RepeatOwnCode ==
    [][(\E k \in KeyIdx : Stamped(k)) =>
          /\ last_focus # None => emitted' = TickEvents(1)
          /\ modVars' = modVars
          /\ pressed' = pressed]_vars

(* the number key was pressed at time 0 and has repeated while fn, ctrl    *)
(* and shift were all on: the tick emitted Shift, 1, 1, Shift              *)
C27_Witness ==
    /\ pressed[5] = 1 /\ press_time[5] = 0 /\ last_repeat[5] = clock
    /\ clock > RepeatDelay
    /\ fn_down = 1 /\ ctrl_down = 1 /\ shift_down = 1
    /\ last_focus # None
    /\ Len(emitted) >= 4
    /\ \E k \in 1..(Len(emitted) - 3) :
         SubSeq(emitted, k, k + 3) =
            <<Down(XKeysymToKeycode("XK_Shift_L")),
              Down(XKeysymToKeycode("XK_1")), Up(XKeysymToKeycode("XK_1")),
              Up(XKeysymToKeycode("XK_Shift_L"))>>


(***************************************************************************)
(* The handlers with their `if (last_focus != None)' blocks taken out:     *)
(* what each event does to the modifier booleans, the press records, the   *)
(* menu state and the visibility state, written over those variables, the  *)
(* event and the clock only.                                               *)
(***************************************************************************)
uiVars == <<modVars, pressVars, menuVars, mapVars>>

BlindKeyPress(i) ==
    LET pr1 == [pressed EXCEPT ![i] = 1]
        flip(v) == IF v = 0 THEN 1 ELSE 0
    IN
    /\ press_time' = [press_time EXCEPT ![i] = clock]
    /\ last_repeat' = [last_repeat EXCEPT ![i] = 0]
    /\ menu_pressed' = menu_pressed
    /\ mapVars' = mapVars
    /\ menu_visible' = IF IsPref(i) THEN ~menu_visible ELSE menu_visible
    /\ caps_down' = IF IsCaps(i) THEN flip(caps_down) ELSE caps_down
    /\ CASE IsPref(i) ->
              /\ pressed' = pr1
              /\ <<shift_down, ctrl_down, alt_down, fn_down>>'
                   = <<shift_down, ctrl_down, alt_down, fn_down>>
         [] IsShift(i) ->
              /\ pressed' = [pr1 EXCEPT ![i] = flip(shift_down)]
              /\ <<shift_down, ctrl_down, alt_down, fn_down>>'
                   = <<flip(shift_down), ctrl_down, alt_down, fn_down>>
         [] IsCtrl(i) ->
              /\ pressed' = [pr1 EXCEPT ![i] = flip(ctrl_down)]
              /\ <<shift_down, ctrl_down, alt_down, fn_down>>'
                   = <<shift_down, flip(ctrl_down), alt_down, fn_down>>
         [] IsAlt(i) ->
              /\ pressed' = [pr1 EXCEPT ![i] = flip(alt_down)]
              /\ <<shift_down, ctrl_down, alt_down, fn_down>>'
                   = <<shift_down, ctrl_down, flip(alt_down), fn_down>>
         [] IsCaps(i) ->
              /\ pressed' = [pr1 EXCEPT ![i] = 0]
              /\ <<shift_down, ctrl_down, alt_down, fn_down>>'
                   = <<shift_down, ctrl_down, alt_down, fn_down>>
         [] IsFn(i) ->
              /\ pressed' = pr1
              /\ <<shift_down, ctrl_down, alt_down, fn_down>>'
                   = <<shift_down, ctrl_down, alt_down, flip(fn_down)>>
         [] OTHER ->
              /\ pressed' = [j \in KeyIdx |->
                               IF IsShift(j) \/ IsCtrl(j) \/ IsAlt(j)
                               THEN 0 ELSE pr1[j]]
              /\ <<shift_down, ctrl_down, alt_down, fn_down>>'
                   = <<0, 0, 0, 0>>

BlindPress(p) ==
    IF menu_visible
    THEN /\ <<modVars, pressVars, mapVars>>' = <<modVars, pressVars, mapVars>>
         /\ menuVars' =
              IF ~InMenu(p) THEN <<FALSE, -1>>
              ELSE IF MenuIdx(p) >= 0 /\ MenuIdx(p) < pref_menu_count
                   THEN <<menu_visible, MenuIdx(p)>>
                   ELSE menuVars
    ELSE IF HitKey(p) # 0 THEN BlindKeyPress(HitKey(p))
         ELSE uiVars' = uiVars

(* the release of a pointer at the position p *)
BlindRelease(p) ==
    IF menu_visible
    THEN /\ <<modVars, press_time, last_repeat>>'
              = <<modVars, press_time, last_repeat>>
         /\ menu_pressed' = -1
         /\ IF /\ menu_pressed # -1 /\ InEntry(p, menu_pressed)
               /\ pref_menu[menu_pressed + 1] = "hide"
            THEN /\ pressed' = [i \in KeyIdx |-> 0]
                 /\ menu_visible' = FALSE
                 /\ mapVars' = <<FALSE, FALSE, TRUE>>
            ELSE <<pressed, menu_visible, mapVars>>'
                   = <<pressed, menu_visible, mapVars>>
    ELSE /\ <<modVars, press_time, menuVars, mapVars>>'
              = <<modVars, press_time, menuVars, mapVars>>
         /\ LET ps == {i \in KeyIdx : pressed[i] # 0}
                k == CHOOSE i \in ps : \A j \in ps : i <= j
                left == CASE IsShift(k) -> shift_down
                          [] IsCtrl(k) -> ctrl_down
                          [] IsAlt(k) -> alt_down
                          [] OTHER -> 0
            IN IF ps = {} THEN <<pressed, last_repeat>>' = <<pressed, last_repeat>>
               ELSE /\ pressed' = [pressed EXCEPT ![k] = left]
                    /\ last_repeat' = [last_repeat EXCEPT ![k] = 0]

BlindLauncher ==
    /\ <<modVars, press_time, last_repeat, menu_pressed>>'
         = <<modVars, press_time, last_repeat, menu_pressed>>
    /\ menu_visible' = FALSE
    /\ mapVars' = IF win_mapped THEN <<FALSE, FALSE, launcher_mapped>>
                  ELSE <<TRUE, TRUE, FALSE>>
    /\ LET ps == {i \in KeyIdx : IsPref(i)}
       IN pressed' = [i \in KeyIdx |->
                        IF i \in ps /\ \A j \in ps : i <= j THEN 0
                        ELSE pressed[i]]

BlindTick ==
    /\ <<modVars, pressed, press_time, menuVars, mapVars>>'
         = <<modVars, pressed, press_time, menuVars, mapVars>>
    /\ last_repeat' =
         [i \in KeyIdx |->
            IF /\ pressed[i] # 0
               /\ clock - press_time[i] > RepeatDelay
               /\ (last_repeat[i] = 0
                     \/ clock - last_repeat[i] > RepeatInterval)
            THEN clock ELSE last_repeat[i]]

(* C28: every pointer event and every repeat tick changes the modifier     *)
(* booleans, the press records, the menu state and the visibility state    *)
(* as the handler without its injection block does, whatever last_focus    *)
(* is; so after any sequence of events they are the same with and without  *)
(* a capture target.                                                       *)
C28_TargetIndependent ==
    [][/\ \A p \in touches' \ touches : BlindPress(p)
       /\ (touches' # touches /\ touches' \subseteq touches
              /\ ~LauncherToggles)
            => \E p \in touches \ touches' : BlindRelease(p)
       /\ LauncherToggles => BlindLauncher
       /\ (touches' = touches /\ ~LauncherToggles /\ clock' = clock)
            => BlindTick]_vars

(* without a capture target: a key held for more than 400 ms was stamped   *)
(* by a repeat tick that emitted nothing                                   *)
C28_Witness ==
    /\ last_focus = None
    /\ \E i \in KeyIdx : pressed[i] = 1 /\ last_repeat[i] = clock
    /\ clock > RepeatDelay
    /\ emitted = <<>>


(* C29: an iteration that runs with the keyboard visible and sets          *)
(* last_focus to a window it resolved also calls XSetInputFocus on that    *)
(* window; with the keyboard hidden no step changes last_focus.            *)
C29_ResampleReasserts ==
    /\ [][(keyboard_visible /\ last_focus' # last_focus
             /\ last_focus' # None) => focus_call' = last_focus']_vars
    /\ [][~keyboard_visible => last_focus' = last_focus]_vars


(* this step is the end of a loop iteration: no pointer event, no change   *)
(* of visibility, no passing of time                                       *)
IterationEnds ==
    touches' = touches /\ clock' = clock /\ mapVars' = mapVars /\ keys' = keys

(* C30: every step that changes a pressed flag, a modifier boolean or the  *)
(* menu state leaves dirty set; dirty goes from set to clear only at the   *)
(* end of an iteration, where the frame is drawn; and it is clear after    *)
(* the end of every iteration.                                             *)
C30_LevelTriggeredRedraw ==
    /\ [][(pressed' # pressed \/ modVars' # modVars \/ menuVars' # menuVars)
             => dirty']_vars
    /\ [][(dirty /\ ~dirty') => IterationEnds]_vars
    /\ [][IterationEnds => ~dirty']_vars

(* a key is held under a pointer, a repeat tick has stamped it, and that   *)
(* iteration has drawn the frame                                           *)
C30_Witness ==
    /\ ~dirty /\ win_mapped
    /\ touches # {}
    /\ \E i \in KeyIdx : ~IsShift(i) /\ pressed[i] = 1 /\ last_repeat[i] # 0


(* row_h of a document, as a numerator over Den(doc) *)
RowH(doc) == (win_h * Den(doc)) \div Len(doc)

InsideCanvas(doc, K) ==
    LET D == Den(doc) IN
    /\ 0 <= K.x /\ K.x + K.w <= win_w * D
    /\ 0 <= K.y
    /\ K.h = RowH(doc) => K.y + K.h <= win_h * D

(* C40: every key rectangle of every loaded layout lies inside the canvas: *)
(* 0 <= x, x + w <= canvas width, 0 <= y and, for a key one row tall,      *)
(* y + h <= canvas height, whatever the number of rows.                    *)
C40_InsideCanvas ==
    [][Loads => \A i \in 1..Len(keys') :
                   InsideCanvas(layout_doc, keys'[i])]_vars


(* the left edges of the reserved spans of the row at y that begin right   *)
(* of x: a span of a row is the final interval of a taller key above it    *)
SpanStartsRightOf(ks, y, x) ==
    {ks[k].x : k \in {j \in SpansInto(ks, y) : ks[j].x > x}}

LastKeyStretched(doc, ks, r) ==
    LET D == Den(doc)
        rowKeys == {i \in 1..Len(ks) : ks[i].y = RowY(doc, r)}
        last == CHOOSE i \in rowKeys : \A j \in rowKeys : j <= i
        starts == SpanStartsRightOf(ks, RowY(doc, r), ks[last].x)
        nearest == CHOOSE s \in starts : \A t \in starts : s <= t
    IN rowKeys # {} =>
         /\ ks[last].x + ks[last].w =
              IF starts = {} THEN win_w * D ELSE nearest - GAP_PX * D
         /\ ks[last].w > 0

(* C32: in every loaded layout the last key of each row ends at the        *)
(* canvas's right edge, or, when a reserved span of the row begins right   *)
(* of the key's left edge, exactly one gap left of the nearest such span;  *)
(* its width is positive in both cases.                                    *)
C32_LastColumnStretch ==
    [][Loads => \A r \in 1..Len(layout_doc) :
                   LastKeyStretched(layout_doc, keys', r)]_vars


(* key j's left edge lies inside the interval [x, x + w) of key k *)
StartsInside(ks, j, k) ==
    ks[k].x <= ks[j].x /\ ks[j].x < ks[k].x + ks[k].w

(* C33: a key taller than a row reserves the interval [x, x + w) of its    *)
(* final geometry on each of the rows below that it reaches into, and no   *)
(* key of those rows has its left edge inside such an interval.            *)
C33_SpansKeepKeysOut ==
    [][Loads => \A j \in 1..Len(keys') :
                  \A k \in SpansInto(keys', keys'[j].y) :
                     ~StartsInside(keys', j, k)]_vars


(* C39: caps changes only in a step that handles a press on a Caps Lock    *)
(* key with the menu closed: releases, presses on other keys or into the   *)
(* menu, loop iterations, the hide action and launcher presses leave it.   *)
C39_CapsPersistent ==
    [][caps_down' # caps_down =>
          \E p \in KeyPresses : keys[HitKey(p)].keysym = "XK_Caps_Lock"]_vars

(* caps was switched on, shift toggled after it, and the keyboard hidden   *)
(* from the menu: caps is still on                                         *)
C39_Witness ==
    /\ caps_down = 1 /\ shift_down = 1
    /\ ~win_mapped /\ launcher_mapped /\ ~keyboard_visible
    /\ ~menu_visible /\ touches = {}


(* the number of events of code kc and direction down among the first n    *)
(* events of s                                                             *)
CountOf(s, n, kc, down) ==
    Cardinality({m \in 1..n : s[m] = <<kc, down>>})

(* every key-up of s follows a key-down of its code that no earlier key-up *)
(* released, and s leaves no code held down                                *)
Balanced(s) ==
    /\ \A n \in 1..Len(s) :
          s[n][2] = FALSE =>
             CountOf(s, n - 1, s[n][1], TRUE) > CountOf(s, n - 1, s[n][1], FALSE)
    /\ \A kc \in Codes(s) :
          CountOf(s, Len(s), kc, TRUE) = CountOf(s, Len(s), kc, FALSE)

(* C35: the synthetic events of every handler (press, repeat tick, hide    *)
(* action) are balanced: each key-up follows a key-down of its code that   *)
(* is not yet released, and no code is left held down when the handler     *)
(* returns.                                                                *)
C35_EventsBalanced == Balanced(emitted)


(* C36: between events every Shift key's pressed flag equals shift, every  *)
(* Ctrl key's equals ctrl and every Alt key's equals alt, also after a     *)
(* hide followed by a show.                                                *)
C36_ModifiersMirror ==
    \A i \in KeyIdx :
        /\ IsShift(i) => pressed[i] = shift_down
        /\ IsCtrl(i) => pressed[i] = ctrl_down
        /\ IsAlt(i) => pressed[i] = alt_down


ToggledOn(i) ==
    \/ IsShift(i) /\ shift_down' # 0
    \/ IsCtrl(i) /\ ctrl_down' # 0
    \/ IsAlt(i) /\ alt_down' # 0

(* C34: with one pointer, whose presses and releases alternate, a release  *)
(* handled with the menu closed leaves no key marked pressed except        *)
(* Shift, Ctrl and Alt keys that are toggled on; Fn and Preferences keys   *)
(* in particular are not left pressed.                                     *)
C34_NoStuckKey ==
    [][(~menu_visible /\ \E p \in touches : ReleaseOf(p)) =>
          \A i \in KeyIdx : pressed'[i] # 0 => ToggledOn(i)]_vars


(* C37: at every point after startup exactly one of the main window and    *)
(* the launcher window is mapped, and keyboard_visible holds iff it is the *)
(* main window, also when launcher presses were queued before the windows  *)
(* were swapped.                                                           *)
C37_OneSurfaceMapped ==
    /\ win_mapped # launcher_mapped
    /\ keyboard_visible = win_mapped


(* C31: in every iteration of the control loop the pending events are      *)
(* taken off the queue one at a time, oldest first, and only in the inner  *)
(* loop; the repeat loop runs only once no event is pending, the redraw    *)
(* only after the repeat loop, and usleep is entered only from the test    *)
(* after the redraw with no event pending.                                 *)
C31_LoopOrder ==
    /\ [][Len(pending') < Len(pending) =>
            /\ pc = "events" /\ pc' = "events"
            /\ pending' = Tail(pending)]_vars
    /\ [][Len(pending') > Len(pending) =>
            /\ Len(pending') = Len(pending) + 1
            /\ SubSeq(pending', 1, Len(pending)) = pending]_vars
    /\ [][((\E k \in KeyIdx : Stamped(k)) \/ (pc = "events" /\ pc' # pc)) =>
            /\ pending = <<>> /\ pending' = <<>>
            /\ pc = "events" /\ pc' = "redraw"]_vars
    /\ [][/\ (pc' = "redraw" /\ pc' # pc) => pc = "events"
          /\ ((dirty /\ ~dirty') \/ (pc = "redraw" /\ pc' # pc)) =>
                pc = "redraw" /\ pc' = "sleep" /\ ~dirty']_vars
    /\ [][((pc' = "asleep" /\ pc' # pc) \/ clock' # clock) =>
            \/ pc = "sleep" /\ pc' = "asleep" /\ pending = <<>>
            \/ pc = "asleep" /\ pc' = "events"]_vars

(* the loop sleeps with nothing pending after an iteration that handled a  *)
(* press, repeated the held key and redrew                                 *)
C31_Witness ==
    /\ pc = "asleep" /\ pending = <<>> /\ ~dirty
    /\ \E i \in KeyIdx : pressed[i] # 0 /\ last_repeat[i] = clock
    /\ emitted # <<>>

====
